---- MODULE Spec2Model ----
(***************************************************************************)
(* Model of clippy_lints/src/stabilized_intrinsics.rs: the table of        *)
(* intrinsics with stable counterparts and the late lint pass whose        *)
(* check_expr reports calls to them.                                       *)
(***************************************************************************)
EXTENDS Integers, Sequences, FiniteSets, Bags, TLC

\* The replacement table is static data; it is carried in the state so that
\* "no invocation writes it" is a statement about behaviours.
VARIABLES
    table,    \* STABILIZED_INTRINSIC_NAMES as the running analysis sees it
    pass,     \* the StabilizedIntrinsics pass value (&mut self)
    sink,     \* diagnostics handed to span_lint so far, in order
    history,  \* the check_expr invocations so far: expression and what it reported
    pending,  \* expressions still to visit; in a parallel traversal, the one of each worker
    wk        \* per worker of a parallel traversal: its invocation in progress

vars == <<table, pass, sink, history, pending, wk>>

\* ---------------------------------------------------------------- bounds
\* Number of check_expr invocations in a sequential run.
MaxVisits == 3
\* Source spans are opaque; they are numbered 1..MaxSpan.
MaxSpan == 2
\* Workers of a parallel traversal, each handed one call expression.
NumWorkers == 2

\* ----------------------------------------------------- the lint and table
\* A TLA+ string cannot hold the grave accent of the Rust literals; it is
\* written as an apostrophe, a character none of the literals contains.
\* declare_clippy_lint! { pub STABILIZED_INTRINSICS, style, ".." }
STABILIZED_INTRINSICS == [name |-> "STABILIZED_INTRINSICS", category |-> "style"]

\* A table with one name entered twice, with different guidance.
STABILIZED_INTRINSIC_NAMES_dup == <<
    <<"atomic_load", "'load' on std::sync::atomic types">>,
    <<"size_of", "'std::mem::size_of'">>,
    <<"transmute", "'std::mem::transmute'">>,
    <<"size_of", "'core::mem::size_of'">>
>>

STABILIZED_INTRINSIC_NAMES == <<
    <<"add_with_oveflow", "'overflowing_add' on integer types">>,
    <<"atomic_and", "'fetch_and' on std::sync::atomic types">>,
    <<"atomic_and_acq", "'fetch_and' on std::sync::atomic types">>,
    <<"atomic_and_acqrel", "'fetch_and' on std::sync::atomic types">>,
    <<"atomic_and_rel", "'fetch_and' on std::sync::atomic types">>,
    <<"atomic_and_relaxed", "'fetch_and' on std::sync::atomic types">>,
    <<"atomic_cxchg", "'compare_exchange' on std::sync::atomic types">>,
    <<"atomic_cxchg_acq", "'compare_exchange' on std::sync::atomic types">>,
    <<"atomic_cxchg_acqrel", "'compare_exchange' on std::sync::atomic types">>,
    <<"atomic_cxchg_acqrel_failrelaxed", "'compare_exchange' on std::sync::atomic types">>,
    <<"atomic_cxchg_failacq", "'compare_exchange' on std::sync::atomic types">>,
    <<"atomic_cxchg_failrelaxed", "'compare_exchange' on std::sync::atomic types">>,
    <<"atomic_cxchg_rel", "'compare_exchange' on std::sync::atomic types">>,
    <<"atomic_cxchg_relaxed", "'compare_exchange' on std::sync::atomic types">>,
    <<"atomic_cxchgweak", "'compare_exchange_weak' on std::sync::atomic types">>,
    <<"atomic_cxchgweak_acq", "'compare_exchange_weak' on std::sync::atomic types">>,
    <<"atomic_cxchgweak_acq_failrelaxed", "'compare_exchange_weak' on std::sync::atomic types">>,
    <<"atomic_cxchgweak_acqrel", "'compare_exchange_weak' on std::sync::atomic types">>,
    <<"atomic_cxchgweak_acqrel_failrelaxed", "'compare_exchange_weak' on std::sync::atomic types">>,
    <<"atomic_cxchgweak_failacq", "'compare_exchange_weak' on std::sync::atomic types">>,
    <<"atomic_cxchgweak_failrelaxed", "'compare_exchange_weak' on std::sync::atomic types">>,
    <<"atomic_cxchgweak_rel", "'compare_exchange_weak' on std::sync::atomic types">>,
    <<"atomic_cxchgweak_relaxed", "'compare_exchange_weak' on std::sync::atomic types">>,
    <<"atomic_load", "'load' on std::sync::atomic types">>,
    <<"atomic_load_acq", "'load' on std::sync::atomic types">>,
    <<"atomic_load_relaxed", "'load' on std::sync::atomic types">>,
    <<"atomic_nand", "'fetch_nand' on std::sync::atomic::AtomicBool">>,
    <<"atomic_nand_acq", "'fetch_nand' on std::sync::atomic::AtomicBool">>,
    <<"atomic_nand_acqrel", "'fetch_nand' on std::sync::atomic::AtomicBool">>,
    <<"atomic_nand_rel", "'fetch_nand' on std::sync::atomic::AtomicBool">>,
    <<"atomic_nand_relaxed", "'fetch_nand' on std::sync::atomic::AtomicBool">>,
    <<"atomic_or", "'fetch_or' on std::sync::atomic types">>,
    <<"atomic_or_acq", "'fetch_or' on std::sync::atomic types">>,
    <<"atomic_or_acqrel", "'fetch_or' on std::sync::atomic types">>,
    <<"atomic_or_rel", "'fetch_or' on std::sync::atomic types">>,
    <<"atomic_or_relaxed", "'fetch_or' on std::sync::atomic types">>,
    <<"atomic_store", "'store' on std::sync::atomic types">>,
    <<"atomic_store_rel", "'store' on std::sync::atomic types">>,
    <<"atomic_store_relaxed", "'store' on std::sync::atomic types">>,
    <<"atomic_xadd", "'fetch_add' on std::sync::atomic::AtomicBool">>,
    <<"atomic_xadd_acq", "'fetch_add' on std::sync::atomic::AtomicBool">>,
    <<"atomic_xadd_acqrel", "'fetch_add' on std::sync::atomic::AtomicBool">>,
    <<"atomic_xadd_rel", "'fetch_add' on std::sync::atomic::AtomicBool">>,
    <<"atomic_xadd_relaxed", "'fetch_add' on std::sync::atomic::AtomicBool">>,
    <<"atomic_xchg", "'swap' on std::sync::atomic::AtomicBool">>,
    <<"atomic_xchg_acq", "'swap' on std::sync::atomic::AtomicBool">>,
    <<"atomic_xchg_acqrel", "'swap' on std::sync::atomic::AtomicBool">>,
    <<"atomic_xchg_rel", "'swap' on std::sync::atomic::AtomicBool">>,
    <<"atomic_xchg_relaxed", "'swap' on std::sync::atomic::AtomicBool">>,
    <<"atomic_xor", "'fetch_xor' on std::sync::atomic::AtomicBool">>,
    <<"atomic_xor_acq", "'fetch_xor' on std::sync::atomic::AtomicBool">>,
    <<"atomic_xor_acqrel", "'fetch_xor' on std::sync::atomic::AtomicBool">>,
    <<"atomic_xor_rel", "'fetch_xor' on std::sync::atomic::AtomicBool">>,
    <<"atomic_xor_relaxed", "'fetch_xor' on std::sync::atomic::AtomicBool">>,
    <<"atomic_xsub", "'fetch_sub' on std::sync::atomic::AtomicBool">>,
    <<"atomic_xsub_acq", "'fetch_sub' on std::sync::atomic::AtomicBool">>,
    <<"atomic_xsub_acqrel", "'fetch_sub' on std::sync::atomic::AtomicBool">>,
    <<"atomic_xsub_rel", "'fetch_sub' on std::sync::atomic::AtomicBool">>,
    <<"atomic_xsub_relaxed", "'fetch_sub' on std::sync::atomic::AtomicBool">>,
    <<"mul_with_overflow", "'overflowing_mul' on integer types">>,
    <<"overflowing_add", "'wrapping_add' on integer types">>,
    <<"overflowing_mul", "'wrapping_mul' on integer types">>,
    <<"rotate_left", "'rotate_left' on integer types">>,
    <<"rotate_right", "'rotate_right' on integer types">>,
    <<"saturating_add", "'saturating_add' on integer types">>,
    <<"saturating_sub", "'saturating_sub' on integer types">>,
    <<"sub_with_overflow", "'overflowing_sub' on integer types">>,
    <<"volatile_load", "'std::ptr::read_volatile'">>,
    <<"volatile_store", "'std::ptr::store_volatile'">>,
    <<"size_of", "'std::mem::size_of'">>,
    <<"transmute", "'std::mem::transmute'">>
>>

\* The first components of the table, in table order.
TableNames(t) == { t[i][1] : i \in DOMAIN t }

\* lookup(name): the guidance strings the table holds for name.
Guidance(t, name) == { t[i][2] : i \in { j \in DOMAIN t : t[j][1] = name } }

\* ------------------------------------------------------- HIR expressions
\* rustc::hir::Expr as far as check_expr inspects it.  expr.kind is the
\* ExprKind variant; expr.path is the callee of ExprKind::Call(ref path, ..);
\* path.qpath is the payload of ExprKind::Path; qpath.rpath holds the segment
\* names of the hir::Path and qpath.res what the path resolved to.
QPathOf(k, res, segs) == [kind |-> k, res |-> res, rpath |-> segs]

CalleeOf(k, qpath) == [kind |-> k, qpath |-> qpath]

ExprOf(k, callee, sp) == [kind |-> k, path |-> callee, span |-> sp]

\* A call through a resolved path, the only shape check_expr looks into.
ResolvedCall(segs, res, sp) ==
    ExprOf("Call", CalleeOf("Path", QPathOf("Resolved", res, segs)), sp)

Spans == 1..MaxSpan

\* What a path can resolve to: an item of the intrinsics module, some other
\* function item, or a local binding.
ResKinds == {"Intrinsic", "Fn", "Local"}

\* Names that are not table keys: an unknown name, the correct spelling of
\* the misspelt key, a proper prefix of keys, a key with a suffix, a key in
\* another case.
UnlistedNames == {"frobnicate", "add_with_overflow", "atomic", "size_of_val", "Transmute"}

\* The ways a name n is written as a path.
SegmentShapes(n) ==
    { <<"intrinsics", n>>, <<n>>, <<"core", "intrinsics", n>>,
      <<"not_intrinsics", n>>, <<"mem", n>>, <<n, "intrinsics">>,
      <<"intrinsics", "intrinsics", n>> }

\* The expression forms: (ExprKind, callee ExprKind, QPath variant).
ExprForms ==
    { <<"Call", "Path", "Resolved">>, <<"Call", "Path", "TypeRelative">>,
      <<"Call", "Closure", "Resolved">>, <<"Call", "Cast", "Resolved">>,
      <<"MethodCall", "Path", "Resolved">>, <<"Path", "Path", "Resolved">> }

\* ------------------------------------------------------------ utilities
\* A match_path that compares the two from their last segments backwards and
\* stops at the end of the shorter one.
match_path_suffix(path, segments) ==
    \A k \in 0..((IF Len(path) < Len(segments) THEN Len(path) ELSE Len(segments)) - 1) :
        path[Len(path) - k] = segments[Len(segments) - k]

\* crate::utils::match_path(path, segments): the path is exactly the given
\* segments, in number and in name.
match_path(path, segments) ==
    /\ Len(path) = Len(segments)
    /\ \A k \in 1..Len(segments) : path[k] = segments[k]

\* crate::utils::span_lint(cx, lint, span, msg): hands one diagnostic to
\* the lint context cx, here the sequence of diagnostics reported so far.
span_lint(cx, lint, sp, msg) ==
    Append(cx, [lint |-> lint, span |-> sp, msg |-> msg])

\* The format! with its two arguments exchanged.
format_swapped(ipath, stabilized_msg) ==
    "'" \o stabilized_msg \o "' is stabilized as " \o ipath

\* format!("'{}' is stabilized as {}", ipath, stabilized_msg)
format(ipath, stabilized_msg) ==
    "'" \o ipath \o "' is stabilized as " \o stabilized_msg

\* -------------------------------------------------------------- the pass
\* A loop body that never compares the intrinsic's name.
loop_body_nsonly(cx, expr, rpath, i) ==
    LET ipath == table[i][1]
        stabilized_msg == table[i][2]
    IN  IF Len(rpath) = 2 /\ rpath[1] = "intrinsics"
        THEN span_lint(cx, STABILIZED_INTRINSICS, expr.span, format(ipath, stabilized_msg))
        ELSE cx

\* A loop body that never compares the namespace segment.
loop_body_anyns(cx, expr, rpath, i) ==
    LET ipath == table[i][1]
        stabilized_msg == table[i][2]
    IN  IF Len(rpath) = 2 /\ rpath[2] = ipath
        THEN span_lint(cx, STABILIZED_INTRINSICS, expr.span, format(ipath, stabilized_msg))
        ELSE cx

\* One iteration of 'for &(ipath, stabilized_msg) in STABILIZED_INTRINSIC_NAMES'.
loop_body(cx, expr, rpath, i) ==
    LET ipath == table[i][1]
        stabilized_msg == table[i][2]
    IN  IF match_path(rpath, <<"intrinsics", ipath>>)
        THEN span_lint(cx, STABILIZED_INTRINSICS, expr.span, format(ipath, stabilized_msg))
        ELSE cx

\* What the iterations for the entries lo..hi report, in table order: the
\* reports of the lower half of the range followed by those of the upper half.
RECURSIVE lint_range(_, _, _, _)
lint_range(expr, rpath, lo, hi) ==
    IF lo > hi
    THEN <<>>
    ELSE IF lo = hi
         THEN loop_body(<<>>, expr, rpath, lo)
         ELSE lint_range(expr, rpath, lo, (lo + hi) \div 2)
                  \o lint_range(expr, rpath, ((lo + hi) \div 2) + 1, hi)

\* The for loop from entry i on: every iteration leaves cx as it is or hands
\* one more diagnostic to it.
lint_loop(cx, expr, rpath, i) == cx \o lint_range(expr, rpath, i, Len(table))

\* An if_chain! without its third 'if let'.
is_resolved_call_anyqpath(expr) ==
    /\ expr.kind = "Call"
    /\ expr.path.kind = "Path"

\* The three 'if let' of the if_chain!.
is_resolved_call(expr) ==
    /\ expr.kind = "Call"
    /\ expr.path.kind = "Path"
    /\ expr.path.qpath.kind = "Resolved"

\* A check_expr that reports a message only the first time it occurs.
check_expr_dedup(cx, expr) ==
    LET all == IF is_resolved_call(expr)
               THEN lint_loop(<<>>, expr, expr.path.qpath.rpath, 1)
               ELSE <<>>
    IN  cx \o SelectSeq(all, LAMBDA d : \A k \in DOMAIN cx : cx[k].msg # d.msg)

\* A check_expr that skips a span it has already reported for.
check_expr_seen(cx, expr) ==
    IF is_resolved_call(expr) /\ \A k \in DOMAIN cx : cx[k].span # expr.span
    THEN lint_loop(cx, expr, expr.path.qpath.rpath, 1)
    ELSE cx

\* check_expr(&mut self, cx, expr): the lint context after the call.
check_expr(cx, expr) ==
    IF is_resolved_call(expr)
    THEN lint_loop(cx, expr, expr.path.qpath.rpath, 1)
    ELSE cx

\* ------------------------------------------------------------ traversal
\* Every expression form over every way of writing every name.
AllExprs ==
    { ExprOf(f[1], CalleeOf(f[2], QPathOf(f[3], r, segs)), sp) :
        f \in ExprForms, r \in ResKinds, sp \in Spans,
        segs \in UNION { SegmentShapes(n) : n \in TableNames(STABILIZED_INTRINSIC_NAMES) \cup UnlistedNames } }

\* The expressions of the programs that are traversed at length.
RunExprs ==
    { ResolvedCall(segs, "Intrinsic", sp) :
        segs \in { <<"intrinsics", "transmute">>, <<"intrinsics", "frobnicate">> },
        sp \in Spans }
    \cup { ResolvedCall(<<"size_of">>, "Fn", sp) : sp \in Spans }
    \cup { ExprOf("Call", CalleeOf("Closure", QPathOf("Resolved", "Local", <<"transmute">>)), sp) : sp \in Spans }

\* The programs: one expression of any kind, or up to MaxVisits expressions.
Programs ==
    { <<e>> : e \in AllExprs }
    \cup UNION { [1..n -> RunExprs] : n \in 0..MaxVisits }

\* declare_lint_pass!(StabilizedIntrinsics => [..]): a unit struct.
StabilizedIntrinsics == <<>>

\* A worker that is not inside check_expr.
Idle ==
    [busy |-> FALSE, i |-> 0, out |-> <<>>,
     expr |-> ExprOf("None", CalleeOf("None", QPathOf("None", "None", <<>>)), 0)]

Init ==
    /\ table = STABILIZED_INTRINSIC_NAMES
    /\ pass = StabilizedIntrinsics
    /\ sink = <<>>
    /\ history = <<>>
    /\ pending \in Programs
    /\ wk = [w \in 1..NumWorkers |-> Idle]

\* The visitor calls check_expr on the next expression.
Visit ==
    /\ pending # <<>>
    /\ LET expr == Head(pending)
       IN  /\ sink' = check_expr(sink, expr)
           /\ history' = Append(history,
                  [expr |-> expr, out |-> SubSeq(sink', Len(sink) + 1, Len(sink'))])
    /\ pending' = Tail(pending)
    /\ UNCHANGED <<table, pass, wk>>

Next == Visit

Spec == Init /\ [][Next]_vars

\* ------------------------------------------------- properties, one visitor
\* The callee of expr is a resolved path: expr is a call, its callee a path
\* expression, the path a QPath::Resolved.
CalleeIsResolvedPath(e) ==
    e.kind = "Call" /\ e.path.kind = "Path" /\ e.path.qpath.kind = "Resolved"

\* The resolved callee path of e is ["intrinsics", X] with X a table key.
TargetsListedIntrinsic(e) ==
    /\ CalleeIsResolvedPath(e)
    /\ Len(e.path.qpath.rpath) = 2
    /\ e.path.qpath.rpath[1] = "intrinsics"
    /\ e.path.qpath.rpath[2] \in TableNames(table)

\* C1: a call whose resolved callee path is ["intrinsics", X], X a table key,
\* gets exactly one diagnostic, on the span of the call, with the message
\* "'X' is stabilized as G", G the guidance the table stores for X.
C1_ListedCallGetsItsMessage ==
    \A k \in DOMAIN history :
        LET e == history[k].expr
            out == history[k].out
            X == e.path.qpath.rpath[2]
        IN  TargetsListedIntrinsic(e) =>
                /\ Len(out) = 1
                /\ out[1].span = e.span
                /\ \E G \in Guidance(table, X) :
                       /\ Guidance(table, X) = {G}
                       /\ out[1].msg = "'" \o X \o "' is stabilized as " \o G
                /\ X = "atomic_load" =>
                       out[1].msg = "'atomic_load' is stabilized as 'load' on std::sync::atomic types"
                /\ X = "size_of" =>
                       out[1].msg = "'size_of' is stabilized as 'std::mem::size_of'"

C1_Witness ==
    \E k \in DOMAIN history :
        /\ history[k].expr = ResolvedCall(<<"intrinsics", "atomic_load">>, "Intrinsic", 2)
        /\ Len(history[k].out) = 1
        /\ history[k].out[1].span = 2

C3_OtherNamespaceSilent ==
    \A k \in DOMAIN history :
        LET e == history[k].expr
            rpath == e.path.qpath.rpath
        IN  ( /\ CalleeIsResolvedPath(e)
              /\ Len(rpath) = 2
              /\ rpath[1] # "intrinsics"
              /\ rpath[2] \in TableNames(table) ) => history[k].out = <<>>

C3_Witness ==
    /\ \E k \in DOMAIN history :
        /\ history[k].expr = ResolvedCall(<<"not_intrinsics", "atomic_load">>, "Fn", 1)
        /\ history[k].out = <<>>
    /\ Len(sink) = 0

\* C4: a resolved callee path ["intrinsics", Y] with Y not a table key gets
\* no diagnostic; in particular the correctly spelt add_with_overflow, a
\* prefix of a key and a key with a suffix do not.
C4_UnlistedNameSilent ==
    \A k \in DOMAIN history :
        LET e == history[k].expr
            rpath == e.path.qpath.rpath
        IN  /\ ( /\ CalleeIsResolvedPath(e)
                 /\ Len(rpath) = 2
                 /\ rpath[1] = "intrinsics"
                 /\ rpath[2] \notin TableNames(table) ) => history[k].out = <<>>
            /\ ( /\ CalleeIsResolvedPath(e)
                 /\ rpath \in { <<"intrinsics", Y>> : Y \in UnlistedNames } ) => history[k].out = <<>>

C4_Witness ==
    \E k \in DOMAIN history :
        /\ history[k].expr = ResolvedCall(<<"intrinsics", "add_with_overflow">>, "Intrinsic", 1)
        /\ history[k].out = <<>>
        /\ "add_with_oveflow" \in TableNames(table)

RECURSIVE Reported(_, _)
Reported(h, n) == IF n > Len(h) THEN <<>> ELSE h[n].out \o Reported(h, n + 1)

\* C6: an expression that is not a call, a call whose callee is not a path
\* expression, and a call whose callee path is not QPath::Resolved get no
\* diagnostic, whatever names occur in them, and leave the diagnostics
\* reported before and the table as they were.
C6_UnresolvedSilent ==
    /\ \A k \in DOMAIN history :
        LET e == history[k].expr
        IN  (e.kind # "Call" \/ e.path.kind # "Path" \/ e.path.qpath.kind # "Resolved")
                => history[k].out = <<>>
    /\ sink = Reported(history, 1)
    /\ table = STABILIZED_INTRINSIC_NAMES

C6_Witness ==
    \E k \in DOMAIN history :
        /\ history[k].expr =
               ExprOf("Call", CalleeOf("Path", QPathOf("TypeRelative", "Intrinsic", <<"intrinsics", "size_of">>)), 1)
        /\ history[k].out = <<>>

\* The invocations among the first n that target a listed intrinsic.
ListedUpTo(n) == { k \in 1..n : TargetsListedIntrinsic(history[k].expr) }

\* C7: after any sequence of invocations there are as many diagnostics as
\* invocations on calls that target a listed intrinsic; each invocation
\* reports at most one, and the m-th such invocation accounts for the m-th
\* diagnostic, on its own span: nothing is deduplicated.
C7_OneDiagnosticPerCallSite ==
    /\ Len(sink) = Cardinality(ListedUpTo(Len(history)))
    /\ \A k \in DOMAIN history :
        /\ Len(history[k].out) <= 1
        /\ TargetsListedIntrinsic(history[k].expr) =>
               sink[Cardinality(ListedUpTo(k))].span = history[k].expr.span

C7_Witness ==
    /\ Len(history) = 2
    /\ history[1].expr = ResolvedCall(<<"intrinsics", "transmute">>, "Intrinsic", 1)
    /\ history[2].expr = ResolvedCall(<<"intrinsics", "transmute">>, "Intrinsic", 2)
    /\ Len(sink) = 2
    /\ sink[1].msg = sink[2].msg
    /\ sink[1].span # sink[2].span

\* C8: no two entries of the table have the same intrinsic name.
C8_TableNamesUnique ==
    Cardinality(TableNames(table)) = Len(table)

C8_Witness ==
    /\ Len(table) = 71
    /\ \E k \in DOMAIN history : TargetsListedIntrinsic(history[k].expr) /\ Len(history[k].out) = 1

\* C9: two invocations on the same expression report the same diagnostics,
\* whatever was examined in between, and no invocation changes the pass or
\* the table.
C9_Idempotent ==
    /\ \A i, j \in DOMAIN history :
           history[i].expr = history[j].expr => history[i].out = history[j].out
    /\ pass = StabilizedIntrinsics
    /\ table = STABILIZED_INTRINSIC_NAMES

C9_Witness ==
    /\ Len(history) = 3
    /\ history[1].expr = history[3].expr
    /\ history[2].expr # history[1].expr
    /\ history[1].out # <<>>
    /\ history[2].out # <<>>
    /\ history[3].out = history[1].out

\* ---------------------------------------------------- parallel traversal
Workers == 1..NumWorkers

\* The call expressions handed to the workers of a parallel traversal, one
\* each; the expression of worker w has span w.
ParForms ==
    { ResolvedCall(<<"intrinsics", "size_of">>, "Intrinsic", 0),
      ExprOf("Call", CalleeOf("Closure", QPathOf("Resolved", "Local", <<"transmute">>)), 0) }

ParPrograms ==
    { [w \in Workers |-> [f[w] EXCEPT !.span = w]] : f \in [Workers -> ParForms] }

InitPar ==
    /\ table = STABILIZED_INTRINSIC_NAMES
    /\ pass = StabilizedIntrinsics
    /\ sink = <<>>
    /\ history = <<>>
    /\ pending \in ParPrograms
    /\ wk = [w \in Workers |-> Idle]

\* Worker w enters check_expr on its expression: the if_chain! either leads
\* into the loop or past it.
Enter(w) ==
    /\ ~wk[w].busy
    /\ \A k \in DOMAIN history : history[k].expr # pending[w]
    /\ LET expr == pending[w]
       IN  wk' = [wk EXCEPT ![w] =
                    [busy |-> TRUE, expr |-> expr, out |-> <<>>,
                     i |-> IF is_resolved_call(expr) THEN 1 ELSE Len(table) + 1]]
    /\ UNCHANGED <<table, pass, sink, history, pending>>

\* A loop iteration that takes the expression from the worker that entered
\* check_expr first instead of its own.
Iterate_shared(w) ==
    /\ wk[w].busy
    /\ wk[w].i <= Len(table)
    /\ LET first == CHOOSE v \in Workers : wk[v].busy /\ \A u \in Workers : wk[u].busy => v <= u
           expr == wk[first].expr
       IN  /\ sink' = loop_body(sink, expr, expr.path.qpath.rpath, wk[w].i)
           /\ wk' = [wk EXCEPT ![w].i = @ + 1,
                               ![w].out = loop_body(@, expr, expr.path.qpath.rpath, wk[w].i)]
    /\ UNCHANGED <<table, pass, history, pending>>

\* Worker w runs one iteration of the loop of its invocation.
Iterate(w) ==
    /\ wk[w].busy
    /\ wk[w].i <= Len(table)
    /\ LET expr == wk[w].expr
       IN  /\ sink' = loop_body(sink, expr, expr.path.qpath.rpath, wk[w].i)
           /\ wk' = [wk EXCEPT ![w].i = @ + 1,
                               ![w].out = loop_body(@, expr, expr.path.qpath.rpath, wk[w].i)]
    /\ UNCHANGED <<table, pass, history, pending>>

\* Worker w returns from check_expr.
Return(w) ==
    /\ wk[w].busy
    /\ wk[w].i > Len(table)
    /\ history' = Append(history, [expr |-> wk[w].expr, out |-> wk[w].out])
    /\ wk' = [wk EXCEPT ![w] = Idle]
    /\ UNCHANGED <<table, pass, sink, pending>>

NextPar == \E w \in Workers : Enter(w) \/ Iterate(w) \/ Return(w)

SpecPar == InitPar /\ [][NextPar]_vars

\* ------------------------------------------- properties, several workers
\* The diagnostics of s as a multiset.
BagOfSeq(s) ==
    [d \in { s[k] : k \in DOMAIN s } |-> Cardinality({ k \in DOMAIN s : s[k] = d })]

\* check_expr run on the expressions of h from the n-th on, one after another.
RECURSIVE Sequentially(_, _, _)
Sequentially(cx, h, n) ==
    IF n > Len(h) THEN cx ELSE Sequentially(check_expr(cx, h[n].expr), h, n + 1)

AllReturned == Len(history) = NumWorkers

\* C10: when the workers have returned from all invocations, the diagnostics
\* reported are, as a multiset, those of running the invocations one after
\* another; each invocation reports what it reports when run alone; and no
\* step of any interleaving writes the table or the pass.
C10_InterleavingsAgree ==
    /\ AllReturned => BagOfSeq(sink) = BagOfSeq(Sequentially(<<>>, history, 1))
    /\ \A k \in DOMAIN history : history[k].out = check_expr(<<>>, history[k].expr)
    /\ table = STABILIZED_INTRINSIC_NAMES
    /\ pass = StabilizedIntrinsics

C10_Witness ==
    /\ AllReturned
    /\ Len(sink) >= 2
    /\ sink[1].span = 2
    /\ sink[2].span = 1
    /\ history[1].expr.span = 1
====
